---- MODULE Spec2Model ----
(***************************************************************************)
(* Model of the two example scripts of mcp-client-notification-demo:       *)
(*                                                                         *)
(*   src/mcp_server_example.py  MCPServer.handle_tool_call and             *)
(*                              MCPServer.handle_session                   *)
(*   src/client_example.py      main, custom_message_handler,              *)
(*                              custom_logging_callback                    *)
(*                                                                         *)
(* The session library both scripts import is not part of the repository.  *)
(* Each of its awaited operations is an environment step that either       *)
(* completes or raises an exception of class Exception; the scripts' own   *)
(* control flow around those outcomes is what is modelled.  Exceptions     *)
(* outside class Exception (task cancellation, KeyboardInterrupt) are not  *)
(* part of the model.                                                      *)
(*                                                                         *)
(* Python values are tagged records, so that values of different Python    *)
(* types can be compared:  [num |-> 2], [str |-> "hi"], [obj |-> ...].     *)
(***************************************************************************)
EXTENDS Integers, Sequences, FiniteSets, TLC

VARIABLES
    spc,        \* server: position of handle_session / handle_tool_call
    cur,        \* server: the tool_call object the loop variable is bound to
    result,     \* server: value handle_tool_call returned (line 174)
    exc,        \* server: exception bound to e in the except clause (line 178)
    ni,         \* server: number of the next notification of the image task
    history,    \* server: summaries of the tool calls yielded before cur
    stream,     \* server: state of the async iterator session.tool_calls()
    cpc,        \* client: position of main()
    steps,      \* client: library operations main() has started, in order
    out,        \* client: lines printed to stdout, in order
    cexc,       \* client: exception in flight in main()
    failedAt,   \* client: the first library operation that raised
    delivered   \* client: number of messages the library has delivered

serverVars == <<spc, cur, result, exc, ni, history, stream>>
clientVars == <<cpc, steps, out, cexc, failedAt, delivered>>
vars == <<spc, cur, result, exc, ni, history, stream,
          cpc, steps, out, cexc, failedAt, delivered>>

-----------------------------------------------------------------------------
(* Bounds of the model.                                                    *)

\* Tool calls one session's stream yields before it ends.
MaxCalls == 3
\* Messages the library delivers to the client's callbacks in one run.
MaxMessages == 2

-----------------------------------------------------------------------------
(* Python values.                                                          *)

Num(n) == [num |-> n]
Str(s) == [str |-> s]
Obj(r) == [obj |-> r]
None == [none |-> TRUE]

IsNum(v) == DOMAIN v = {"num"}
IsStr(v) == DOMAIN v = {"str"}

\* dict.get(key, default) on a parameter dictionary (a function whose domain
\* is the set of keys present).
Get(params, key, default) ==
    IF key \in DOMAIN params THEN params[key] ELSE default

\* str() of a value inside an f-string.
Format(v) == IF IsStr(v) THEN v.str ELSE ToString(v.num)

\* An exception: its class and str(e).
Exc(cls, msg) == [cls |-> cls, msg |-> msg]
NoExc == [cls |-> "", msg |-> ""]

\* Outcome of evaluating an expression: a value or a raised exception.
Ok(v) == [ok |-> TRUE, val |-> v, exc |-> NoExc]
Raise(e) == [ok |-> FALSE, val |-> None, exc |-> e]

\* Python's x + y on numbers and strings.
Plus(x, y) ==
    IF IsNum(x) /\ IsNum(y) THEN Ok(Num(x.num + y.num))
    ELSE IF IsStr(x) /\ IsStr(y) THEN Ok(Str(x.str \o y.str))
    ELSE IF IsNum(x)
         THEN Raise(Exc("TypeError",
                        "unsupported operand type(s) for +: 'int' and 'str'"))
         ELSE Raise(Exc("TypeError",
                        "can only concatenate str (not \"int\") to str"))

-----------------------------------------------------------------------------
(* The tools: src/mcp_server_example.py.                                   *)

ToolNames == {"echo", "add", "mcp_create_text_to_image_task"}

\* Defaults of the image task's parameters.
DefaultSize == 512
DefaultNumImages == 1
\* range(1, 5): four progress notifications, i * 25 percent each.
ProgressSteps == 4
ProgressUnit == 25

\* The notifications of the image task, in program order.
StatusNote(status, message) ==
    [type |-> "status", status |-> status, progress |-> -1, message |-> message]
ProgressNote(progress) ==
    [type |-> "progress", status |-> "", progress |-> progress,
     message |-> "Generating image: " \o ToString(progress) \o "% complete"]

NumNotes == ProgressSteps + 2

\* Mutant of NoteAt: the progress loop is range(0, 4).
NoteAtFromZero(params, n) ==
    IF n = 1
    THEN StatusNote("starting", "Starting image generation for: "
                                \o Format(Get(params, "prompt", Str(""))))
    ELSE IF n <= ProgressSteps + 1
    THEN ProgressNote((n - 2) * ProgressUnit)
    ELSE StatusNote("completed", "Image generation complete!")

\* The n-th awaited send_notification of the image task (n in 1..NumNotes).
NoteAt(params, n) ==
    IF n = 1
    THEN StatusNote("starting", "Starting image generation for: "
                                \o Format(Get(params, "prompt", Str(""))))
    ELSE IF n <= ProgressSteps + 1
    THEN ProgressNote((n - 1) * ProgressUnit)
    ELSE StatusNote("completed", "Image generation complete!")

\* The return statement of the image task (lines 145-154); range(num_images)
\* raises TypeError unless num_images is an integer.
ImageResult(params) ==
    LET prompt == Get(params, "prompt", Str(""))
        width == Get(params, "width", Num(DefaultSize))
        height == Get(params, "height", Num(DefaultSize))
        num_images == Get(params, "num_images", Num(DefaultNumImages))
    IN  IF ~IsNum(num_images)
        THEN Raise(Exc("TypeError",
                       "'str' object cannot be interpreted as an integer"))
        ELSE Ok(Obj([images |->
                        [i \in 1..num_images.num |->
                            [url |-> "https://example.com/images/generated_"
                                     \o ToString(i - 1) \o ".png",
                             width |-> width, height |-> height]],
                     prompt |-> prompt]))

\* Whether the image task sends notifications (line 119): tool_call is
\* given and has send_notification.
SendsNotes(tc) == tc.notify

\* Mutant of Echo: the message is converted with str() before it is returned.
EchoStr(params) == Ok(Str(Format(Get(params, "message", Str("")))))

\* Line 108.
Echo(params) == Ok(Get(params, "message", Str("")))

\* Mutant of Add: the default of an absent b is 1.
AddDefaultOne(params) ==
    Plus(Get(params, "a", Num(0)), Get(params, "b", Num(1)))

\* Line 110.
Add(params) == Plus(Get(params, "a", Num(0)), Get(params, "b", Num(0)))

\* Mutant of UnknownTool: the else branch is missing and None is returned.
UnknownToolReturnsNone(tool_name) == Ok(None)

\* Line 156.
UnknownTool(tool_name) ==
    Raise(Exc("ValueError", "Unknown tool: " \o tool_name))

\* The branches of handle_tool_call that finish without awaiting (the image
\* task without send_notification among them).
Dispatch(tc) ==
    IF tc.name = "echo" THEN Echo(tc.params)
    ELSE IF tc.name = "add" THEN Add(tc.params)
    ELSE IF tc.name = "mcp_create_text_to_image_task"
    THEN ImageResult(tc.params)
    ELSE UnknownTool(tc.name)

EntersNotify(tc) ==
    tc.name = "mcp_create_text_to_image_task" /\ SendsNotes(tc)

-----------------------------------------------------------------------------
(* Tool calls the session may yield.                                       *)

\* All dictionaries over the given keys, each key absent or bound to one of
\* its values.
Dicts(keys, valsOf(_)) ==
    UNION { { d \in [ks -> UNION {valsOf(k) : k \in ks}] :
                \A k \in ks : d[k] \in valsOf(k) } : ks \in SUBSET keys }

EchoParams ==
    Dicts({"message"}, LAMBDA k : {Str("hi"), Str(""), Num(7)})
AddParams ==
    Dicts({"a", "b"}, LAMBDA k : {Num(2), Num(3), Num(-5), Str("x")})
\* The one call the client script makes (src/client_example.py, lines
\* 103-111).
ClientToolName == "mcp_create_text_to_image_task"
ClientToolParams ==
    [k \in {"prompt", "width", "height", "negitive_prompt"} |->
        IF k = "prompt" THEN Str("A beautiful sunset over the mountains")
        ELSE IF k = "negitive_prompt" THEN Str("tree")
        ELSE Num(512)]

ImageValsOf(k) ==
    IF k = "prompt" THEN {Str("A beautiful sunset over the mountains")}
    ELSE IF k = "width" THEN {Num(64), Num(512)}
    ELSE IF k = "height" THEN {Num(32), Num(512)}
    ELSE IF k = "num_images" THEN {Num(0), Num(2), Str("x")}
    ELSE {Str("tree")}
ImageParams ==
    { p \in Dicts({"prompt", "width", "height", "num_images", "negitive_prompt"},
                  ImageValsOf) :
        /\ ("width" \in DOMAIN p) = ("height" \in DOMAIN p)
        /\ ("width" \in DOMAIN p) =>
               (p["width"] = Num(512)) = (p["height"] = Num(512))
        /\ ("negitive_prompt" \in DOMAIN p) => p = ClientToolParams }
UnknownNames == {"", "list_tools", "Echo"}

\* A fresh tool_call object as tool_calls() yields it.
ToolCall(name, params, notify) ==
    [name |-> name, params |-> params, notify |-> notify,
     sent |-> << >>, replies |-> << >>, handled |-> 0, raised |-> NoExc]

ToolCalls ==
    { ToolCall("echo", p, n) : p \in EchoParams, n \in BOOLEAN }
    \cup { ToolCall("add", p, n) : p \in AddParams, n \in BOOLEAN }
    \cup { ToolCall("mcp_create_text_to_image_task", p, n) :
               p \in ImageParams, n \in BOOLEAN }
    \cup { ToolCall(u, << >>, n) : u \in UnknownNames, n \in BOOLEAN }

\* The loop variable before the first iteration.
NoCall == None

\* str(e) of an exception a library operation raises.
LibError == Exc("RuntimeError", "connection closed")

-----------------------------------------------------------------------------
(* The state after construction.                                           *)

Init ==
    /\ spc = "initialize"
    /\ cur = NoCall
    /\ result = None
    /\ exc = NoExc
    /\ ni = 0
    /\ history = << >>
    /\ stream = "open"
    /\ cpc = "connect"
    /\ steps = << >>
    /\ out = <<"Connecting to MCP server...">>
    /\ cexc = NoExc
    /\ failedAt = ""
    /\ delivered = 0

-----------------------------------------------------------------------------
(* MCPServer.handle_session and the awaits of handle_tool_call.            *)
(* One action per await: the code between two awaits runs without          *)
(* suspension and belongs to the action of the await that precedes it.     *)

\* What the loop remembers of a tool call it has left behind.
Summary(tc) ==
    [replies |-> [i \in 1..Len(tc.replies) |->
                     [kind |-> tc.replies[i].kind, ok |-> tc.replies[i].ok]],
     handled |-> tc.handled,
     raised |-> tc.raised # NoExc]

Yielded == Len(history) + (IF cur = NoCall THEN 0 ELSE 1)

\* Mutant of AtLoopTop: the next tool call is taken while the reply to the
\* current one is still to be issued.
AtLoopTopOrReplying == spc \in {"next", "success", "error"}

\* async for (line 172): the next tool call is requested only at the top of
\* the loop, after the body's reply has been awaited.
AtLoopTop == spc = "next"

\* Line 177: the position after handle_tool_call returned a value.
AfterReturn == "success"
\* Lines 178-179: the position after an exception was raised inside try.
AfterRaise == "error"
\* Mutant of AfterReply: the loop body ends with a break.
AfterReplyBreak == "done"
\* After a reply has been awaited: back to the top of the loop.
AfterReply == "next"

\* The state after handle_tool_call finished with outcome o for tool call tc.
Finish(tc, o) ==
    /\ result' = o.val
    /\ exc' = o.exc
    /\ cur' = [tc EXCEPT !.raised = o.exc]
    /\ spc' = IF o.ok THEN AfterReturn ELSE AfterRaise

\* Line 169.
InitializeOk ==
    /\ UNCHANGED clientVars
    /\ spc = "initialize"
    /\ spc' = "next"
    /\ UNCHANGED <<cur, result, exc, ni, history, stream>>

InitializeFails ==
    /\ UNCHANGED clientVars
    /\ spc = "initialize"
    /\ spc' = "failed"
    /\ UNCHANGED <<cur, result, exc, ni, history, stream>>

\* Lines 172-176: tool_calls() yields tc, and handle_tool_call runs to its
\* first await or to its end.
TakeToolCall(tc) ==
    /\ UNCHANGED clientVars
    /\ AtLoopTop
    /\ stream = "open"
    /\ Yielded < MaxCalls
    /\ history' = IF cur = NoCall THEN history
                  ELSE Append(history, Summary(cur))
    /\ stream' = stream
    /\ LET started == [tc EXCEPT !.handled = tc.handled + 1]
       IN  IF EntersNotify(started)
           THEN /\ cur' = started
                /\ spc' = "notify"
                /\ ni' = 1
                /\ result' = None
                /\ exc' = NoExc
           ELSE /\ Finish(started, Dispatch(started))
                /\ ni' = 0

\* tool_calls() is exhausted: the loop and handle_session end.
StreamEnds ==
    /\ UNCHANGED clientVars
    /\ AtLoopTop
    /\ stream = "open"
    /\ stream' = "ended"
    /\ spc' = "done"
    /\ UNCHANGED <<cur, result, exc, ni, history>>

\* tool_calls() raises: the exception leaves handle_session.
StreamFails ==
    /\ UNCHANGED clientVars
    /\ AtLoopTop
    /\ stream = "open"
    /\ stream' = "broken"
    /\ spc' = "failed"
    /\ UNCHANGED <<cur, result, exc, ni, history>>

\* Lines 121, 131, 138: one send_notification completes; after the last one
\* the result is built and returned.
SendNotificationOk ==
    /\ UNCHANGED clientVars
    /\ spc = "notify"
    /\ LET sent == [cur EXCEPT !.sent = Append(cur.sent, NoteAt(cur.params, ni))]
       IN  IF ni < NumNotes
           THEN /\ cur' = sent
                /\ ni' = ni + 1
                /\ UNCHANGED <<spc, result, exc>>
           ELSE /\ Finish(sent, ImageResult(sent.params))
                /\ ni' = 0
    /\ UNCHANGED <<history, stream>>

\* One send_notification raises: handle_tool_call raises.
SendNotificationFails ==
    /\ UNCHANGED clientVars
    /\ spc = "notify"
    /\ Finish(cur, Raise(LibError))
    /\ ni' = 0
    /\ UNCHANGED <<history, stream>>

\* A reply the loop issues: return_success(arg) or return_error(arg), and
\* whether the awaited operation completed (ok) or raised.
Reply(kind, arg, ok) == [kind |-> kind, arg |-> arg, ok |-> ok]
\* Mutant of ErrorReply: the exception's class name is sent, not str(e).
ErrorReplyClass(ok) == Reply("error", Str(exc.cls), ok)
\* Line 177: return_success(result).
SuccessReply(ok) == Reply("success", result, ok)
\* Line 179: return_error(str(e)).
ErrorReply(ok) == Reply("error", Str(exc.msg), ok)

\* Line 177.
ReturnSuccessOk ==
    /\ UNCHANGED clientVars
    /\ spc = "success"
    /\ cur' = [cur EXCEPT !.replies = Append(cur.replies, SuccessReply(TRUE))]
    /\ spc' = AfterReply
    /\ UNCHANGED <<result, exc, ni, history, stream>>

\* Line 177 raises inside the try block: the except clause runs.
ReturnSuccessFails ==
    /\ UNCHANGED clientVars
    /\ spc = "success"
    /\ cur' = [cur EXCEPT !.replies = Append(cur.replies, SuccessReply(FALSE))]
    /\ exc' = LibError
    /\ spc' = AfterRaise
    /\ UNCHANGED <<result, ni, history, stream>>

\* Line 179.
ReturnErrorOk ==
    /\ UNCHANGED clientVars
    /\ spc = "error"
    /\ cur' = [cur EXCEPT !.replies = Append(cur.replies, ErrorReply(TRUE))]
    /\ spc' = AfterReply
    /\ UNCHANGED <<result, exc, ni, history, stream>>

\* Line 179 raises inside the except clause: the exception leaves
\* handle_session.
ReturnErrorFails ==
    /\ UNCHANGED clientVars
    /\ spc = "error"
    /\ cur' = [cur EXCEPT !.replies = Append(cur.replies, ErrorReply(FALSE))]
    /\ spc' = "failed"
    /\ UNCHANGED <<result, exc, ni, history, stream>>

Next ==
    \/ InitializeOk
    \/ InitializeFails
    \/ \E tc \in ToolCalls : TakeToolCall(tc)
    \/ StreamEnds
    \/ StreamFails
    \/ SendNotificationOk
    \/ SendNotificationFails
    \/ ReturnSuccessOk
    \/ ReturnSuccessFails
    \/ ReturnErrorOk
    \/ ReturnErrorFails

Spec == Init /\ [][Next]_vars

-----------------------------------------------------------------------------
(* The client: src/client_example.py.                                      *)

\* The awaited operations of main(), in program order, and the context
\* managers' exits.
MainOps == <<"connect", "session", "initialize", "call_tool", "result">>
OpIndex(op) == CHOOSE i \in 1..Len(MainOps) : MainOps[i] = op

Step(op, ok) ==
    [op |-> op, ok |-> ok,
     tool |-> IF op = "call_tool" THEN ClientToolName ELSE "",
     params |-> IF op = "call_tool" THEN ClientToolParams ELSE << >>]

\* The exception a failing library operation raises.
OpError(op) == Exc("RuntimeError", op \o " failed")

\* Mutant of Catches: the clause is except ValueError.
CatchesValueError(e) == e.cls = "ValueError"
\* except Exception (line 119): whether the clause catches e.
Catches(e) == TRUE

\* Where an exception raised at op inside the with blocks goes next: the
\* __aexit__ of the innermost context manager that has been entered.
Unwind(op) ==
    IF op = "connect" THEN "except"
    ELSE IF op = "session" THEN "transport_exit"
    ELSE "session_exit"

\* The lines main() prints once op has completed (lines 81, 94, 100, 112,
\* 114, 116, 117).
Prints(op) ==
    IF op = "connect" THEN <<"Connected to server, initializing session...">>
    ELSE IF op = "initialize"
    THEN <<"Session initialized successfully!",
           "\nCalling text-to-image generation tool...">>
    ELSE IF op = "call_tool" THEN <<"Task: ", "Waiting for task result...">>
    ELSE IF op = "result" THEN <<"\nTask completed!", "Result:">>
    ELSE << >>

\* Mutant of After: session.initialize() is skipped.
AfterSkipInitialize(op) ==
    IF op = "connect" THEN "session"
    ELSE IF op = "session" THEN "call_tool"
    ELSE IF op = "initialize" THEN "call_tool"
    ELSE IF op = "call_tool" THEN "result"
    ELSE "session_exit"

\* The position after op has completed.
After(op) ==
    IF op = "connect" THEN "session"
    ELSE IF op = "session" THEN "initialize"
    ELSE IF op = "initialize" THEN "call_tool"
    ELSE IF op = "call_tool" THEN "result"
    ELSE "session_exit"

\* Leaving the try statement with exception e in flight (NoExc: none):
\* lines 119-120, which run without suspension.
Leave(e, lines) ==
    IF e = NoExc
    THEN /\ cpc' = "done"
         /\ out' = lines
    ELSE IF Catches(e)
    THEN /\ cpc' = "done"
         /\ out' = Append(lines, "Error: " \o e.msg)
    ELSE /\ cpc' = "crashed"
         /\ out' = lines

\* One of the awaited operations of main() completes.
OpOk(op) ==
    /\ UNCHANGED serverVars
    /\ cpc = op
    /\ steps' = Append(steps, Step(op, TRUE))
    /\ out' = out \o Prints(op)
    /\ cpc' = After(op)
    /\ UNCHANGED <<cexc, failedAt, delivered>>

\* One of the awaited operations of main() raises.
OpFails(op) ==
    /\ UNCHANGED serverVars
    /\ cpc = op
    /\ steps' = Append(steps, Step(op, FALSE))
    /\ cexc' = OpError(op)
    /\ failedAt' = op
    /\ IF Unwind(op) = "except"
       THEN Leave(OpError(op), out)
       ELSE cpc' = Unwind(op) /\ out' = out
    /\ UNCHANGED delivered

\* ClientSession.__aexit__ (the end of the with block of line 85).
SessionExitOk ==
    /\ UNCHANGED serverVars
    /\ cpc = "session_exit"
    /\ steps' = Append(steps, Step("session_exit", TRUE))
    /\ cpc' = "transport_exit"
    /\ UNCHANGED <<out, cexc, failedAt, delivered>>

SessionExitFails ==
    /\ UNCHANGED serverVars
    /\ cpc = "session_exit"
    /\ steps' = Append(steps, Step("session_exit", FALSE))
    /\ cexc' = OpError("session_exit")
    /\ cpc' = "transport_exit"
    /\ UNCHANGED <<out, failedAt, delivered>>

\* streamablehttp_client's __aexit__ (the end of the with block of line 76),
\* then the except clause.
TransportExitOk ==
    /\ UNCHANGED serverVars
    /\ cpc = "transport_exit"
    /\ steps' = Append(steps, Step("transport_exit", TRUE))
    /\ Leave(cexc, out)
    /\ UNCHANGED <<cexc, failedAt, delivered>>

TransportExitFails ==
    /\ UNCHANGED serverVars
    /\ cpc = "transport_exit"
    /\ steps' = Append(steps, Step("transport_exit", FALSE))
    /\ cexc' = OpError("transport_exit")
    /\ Leave(OpError("transport_exit"), out)
    /\ UNCHANGED <<failedAt, delivered>>

\* custom_message_handler (lines 19-54) on one incoming message.
MessageKinds ==
    {"LoggingMessageNotification", "ResourceChangedNotification",
     "SamplingRequestedNotification", "ProgressNotification",
     "RequestResponder", "Exception"}

custom_message_handler(kind) ==
    IF kind = "RequestResponder" THEN <<"Received request: ">>
    ELSE IF kind = "Exception" THEN <<"Received exception: ">>
    ELSE <<"Received notification: " \o kind>> \o
         (IF kind = "LoggingMessageNotification"
          THEN <<"Log message: ", "Log level: ">>
          ELSE IF kind = "ResourceChangedNotification"
          THEN <<"Resource changed: ">>
          ELSE IF kind = "SamplingRequestedNotification"
          THEN <<"Sampling requested for: ">>
          ELSE <<"Unhandled notification type: ">>)

\* custom_logging_callback (lines 57-67) on one logging notification.
LoggingLevels == {"debug", "info", "warning", "error", "critical"}

custom_logging_callback(level) ==
    LET level_str ==
            IF level = "debug" THEN "DEBUG"
            ELSE IF level = "info" THEN "INFO"
            ELSE IF level = "warning" THEN "WARNING"
            ELSE IF level = "error" THEN "ERROR"
            ELSE level
    IN  <<"[" \o level_str \o "] ">>

\* The session's receive loop runs while the session is entered and main()
\* is suspended in one of its awaits.
Receiving == cpc \in {"initialize", "call_tool", "result", "session_exit"}

DeliverMessage(kind) ==
    /\ UNCHANGED serverVars
    /\ Receiving
    /\ delivered < MaxMessages
    /\ delivered' = delivered + 1
    /\ out' = out \o custom_message_handler(kind)
    /\ UNCHANGED <<cpc, steps, cexc, failedAt>>

DeliverLog(level) ==
    /\ UNCHANGED serverVars
    /\ Receiving
    /\ delivered < MaxMessages
    /\ delivered' = delivered + 1
    /\ out' = out \o custom_logging_callback(level)
    /\ UNCHANGED <<cpc, steps, cexc, failedAt>>

ClientNext ==
    \/ \E i \in 1..Len(MainOps) : OpOk(MainOps[i])
    \/ \E i \in 1..Len(MainOps) : OpFails(MainOps[i])
    \/ SessionExitOk
    \/ SessionExitFails
    \/ TransportExitOk
    \/ TransportExitFails
    \/ \E kind \in MessageKinds : DeliverMessage(kind)
    \/ \E level \in LoggingLevels : DeliverLog(level)

ClientSpec == Init /\ [][ClientNext]_vars

-----------------------------------------------------------------------------
(* Properties of the server, checked under Spec.                           *)

HasCur == cur # NoCall
\* The loop has left the body of the current tool call.
BodyDone == spc \in {"next", "done", "failed"}
Kinds(tc) == [i \in 1..Len(tc.replies) |-> tc.replies[i].kind]

\* C1: a tool name other than echo, add and mcp_create_text_to_image_task
\* makes handle_tool_call raise ValueError("Unknown tool: <name>") and return
\* no value; handle_session answers the call with return_error and never
\* with return_success.
C1_UnknownToolIsError ==
    (HasCur /\ cur.name \notin ToolNames) =>
        /\ cur.raised = Exc("ValueError", "Unknown tool: " \o cur.name)
        /\ result = None
        /\ spc \in {"error", "next", "done", "failed"}
        /\ spc = "error" => cur.replies = << >>
        /\ spc # "error" =>
              /\ Len(cur.replies) = 1
              /\ cur.replies[1].kind = "error"
              /\ cur.replies[1].arg = Str("Unknown tool: " \o cur.name)

C1_Witness ==
    /\ HasCur
    /\ cur.name = "list_tools"
    /\ spc = "next"
    /\ Kinds(cur) = <<"error">>

\* C2: when handle_tool_call raises e for a tool call, that call is answered
\* by return_error(str(e)), return_success is not called for it, and
\* handle_tool_call is invoked once for it.
C2_RaiseIsReturnedAsError ==
    /\ HasCur /\ cur.raised # NoExc =>
          /\ cur.handled = 1
          /\ spc \in {"error", "next", "done", "failed"}
          /\ spc = "error" => cur.replies = << >>
          /\ spc # "error" =>
                /\ Kinds(cur) = <<"error">>
                /\ cur.replies[1].arg = Str(cur.raised.msg)
    /\ \A i \in 1..Len(history) :
          history[i].raised =>
              /\ history[i].handled = 1
              /\ history[i].replies = <<[kind |-> "error", ok |-> TRUE]>>

C2_Witness ==
    /\ HasCur
    /\ cur.name = "add"
    /\ cur.raised.cls = "TypeError"
    /\ spc = "next"
    /\ cur.replies =
          <<Reply("error",
                  Str("unsupported operand type(s) for +: 'int' and 'str'"),
                  TRUE)>>

\* C3: echo returns its message unchanged, the empty string when the
\* message is absent, and sends no notification.
C3_EchoReturnsInput ==
    (HasCur /\ cur.name = "echo") =>
        LET m == IF "message" \in DOMAIN cur.params
                 THEN cur.params["message"] ELSE Str("")
        IN  /\ cur.raised = NoExc
            /\ result = m
            /\ cur.sent = << >>
            /\ spc # "notify"
            /\ cur.replies # << >> =>
                  /\ cur.replies[1].kind = "success"
                  /\ cur.replies[1].arg = m

C3_Witness ==
    /\ HasCur
    /\ cur.name = "echo"
    /\ cur.params = [message |-> Str("hi")]
    /\ result = Str("hi")
    /\ spc = "next"
    /\ cur.replies = <<Reply("success", Str("hi"), TRUE)>>

\* C4: add returns a + b for numbers a and b, an absent operand counting as
\* 0, and sends no notification.
C4_AddReturnsSum ==
    (/\ HasCur
     /\ cur.name = "add"
     /\ \A k \in DOMAIN cur.params : IsNum(cur.params[k])) =>
        LET a == IF "a" \in DOMAIN cur.params THEN cur.params["a"].num ELSE 0
            b == IF "b" \in DOMAIN cur.params THEN cur.params["b"].num ELSE 0
        IN  /\ cur.raised = NoExc
            /\ result = Num(a + b)
            /\ cur.sent = << >>
            /\ spc # "notify"
            /\ cur.replies # << >> =>
                  /\ cur.replies[1].kind = "success"
                  /\ cur.replies[1].arg = Num(a + b)

C4_Witness ==
    /\ HasCur
    /\ cur.name = "add"
    /\ cur.params = [a |-> Num(2), b |-> Num(3)]
    /\ result = Num(5)
    /\ spc = "next"
    /\ cur.replies = <<Reply("success", Num(5), TRUE)>>

\* The type, status and progress of the notifications sent on a tool call.
Shape(notes) ==
    [i \in 1..Len(notes) |->
        IF notes[i].type = "status"
        THEN <<"status", notes[i].status>>
        ELSE <<"progress", ToString(notes[i].progress)>>]

SixNotes ==
    << <<"status", "starting">>, <<"progress", "25">>, <<"progress", "50">>,
       <<"progress", "75">>, <<"progress", "100">>, <<"status", "completed">> >>

\* C7: the image task, given a tool_call with send_notification and no
\* failing send, sends exactly six notifications in the order status
\* "starting", progress 25, 50, 75, 100, status "completed"; the progress
\* values increase strictly; the result is returned only after "completed"
\* has been sent.
C7_ImageTaskNotifications ==
    (HasCur /\ cur.name = "mcp_create_text_to_image_task" /\ cur.notify) =>
        /\ Len(cur.sent) <= 6
        /\ Shape(cur.sent) = SubSeq(SixNotes, 1, Len(cur.sent))
        /\ \A i, j \in 1..Len(cur.sent) :
              (/\ i < j
               /\ cur.sent[i].type = "progress"
               /\ cur.sent[j].type = "progress") =>
                  cur.sent[i].progress < cur.sent[j].progress
        /\ (spc # "notify" /\ cur.raised # LibError) =>
              Shape(cur.sent) = SixNotes
        /\ (spc = "success" \/ result # None \/ "success" \in
                { cur.replies[i].kind : i \in 1..Len(cur.replies) }) =>
              /\ Len(cur.sent) = 6
              /\ cur.sent[6].status = "completed"

C7_Witness ==
    /\ HasCur
    /\ cur.name = "mcp_create_text_to_image_task"
    /\ cur.notify
    /\ cur.params = ClientToolParams
    /\ Shape(cur.sent) = SixNotes
    /\ spc = "next"
    /\ Kinds(cur) = <<"success">>

\* A tool call whose handler raised and whose return_error completed.
FailedAndAnswered(r) ==
    r.raised /\ r.replies = <<[kind |-> "error", ok |-> TRUE]>>

\* A tool call the loop has handled and answered.
HandledAndAnswered(r) == r.handled = 1 /\ r.replies # << >>

\* Some tool call before the current one failed and was answered.
EarlierFailure == \E i \in 1..Len(history) : FailedAndAnswered(history[i])

\* The loop has ended, and handle_session with it.
LoopEnded == spc \in {"done", "failed"}

\* The last reply operation of the current tool call, return_error, raised.
ReturnErrorRaised ==
    /\ HasCur
    /\ cur.replies # << >>
    /\ cur.replies[Len(cur.replies)].kind = "error"
    /\ ~cur.replies[Len(cur.replies)].ok

\* C8 as stated: once a tool call whose handler raised has been answered with
\* a return_error that completed, every tool call yielded afterwards is
\* handled and answered, and the loop ends only when the stream of tool calls
\* ends.
C8_LoopEndsOnlyWithStream ==
    /\ (HasCur /\ FailedAndAnswered(Summary(cur))) =>
          (spc = "next" \/ (LoopEnded /\ stream # "open"))
    /\ EarlierFailure =>
          /\ \A i \in 1..Len(history) : HandledAndAnswered(history[i])
          /\ BodyDone => HandledAndAnswered(Summary(cur))
          /\ LoopEnded => stream # "open"

\* C8, amended: once a tool call whose handler raised has been answered with
\* a return_error that completed, the loop is back at its top; every tool call
\* yielded afterwards is handled and answered; and the loop ends only when the
\* stream of tool calls ends or when return_error itself raises for a later
\* tool call.
C8_LoopSurvivesFailingCall ==
    /\ (HasCur /\ FailedAndAnswered(Summary(cur))) =>
          (spc = "next" \/ (LoopEnded /\ stream # "open"))
    /\ EarlierFailure =>
          /\ \A i \in 1..Len(history) : HandledAndAnswered(history[i])
          /\ BodyDone => HandledAndAnswered(Summary(cur))
          /\ LoopEnded => (stream # "open" \/ ReturnErrorRaised)

C8_Witness ==
    /\ Len(history) = 2
    /\ FailedAndAnswered(history[1])
    /\ history[2].replies = <<[kind |-> "success", ok |-> TRUE]>>
    /\ Kinds(cur) = <<"success">>
    /\ spc = "done"
    /\ stream = "ended"

\* C9: for each tool call the session yields, exactly one of return_success
\* and return_error is invoked, whatever the handler and the reply
\* operations do.
C9_ExactlyOneReply ==
    /\ \A i \in 1..Len(history) : Len(history[i].replies) = 1
    /\ HasCur =>
          /\ Len(cur.replies) <= 1
          /\ BodyDone => Len(cur.replies) = 1

\* C10: within a session the tool calls are handled one at a time, in order
\* of receipt: when the next tool call is taken, the current one has been
\* handled once, its last reply operation has completed, and nothing has
\* been sent on or returned for the next one.
C10_OneCallAtATime ==
    /\ \A i \in 1..Len(history) :
          /\ history[i].handled = 1
          /\ history[i].replies # << >>
          /\ history[i].replies[Len(history[i].replies)].ok
    /\ HasCur => cur.handled = 1
    /\ (HasCur /\ spc \in {"notify", "success"}) => cur.replies = << >>
    /\ (HasCur /\ spc = "error") => Len(cur.replies) <= 1

C10_Witness ==
    /\ Len(history) = 1
    /\ history[1].replies = <<[kind |-> "success", ok |-> TRUE]>>
    /\ HasCur
    /\ cur.name = "mcp_create_text_to_image_task"
    /\ spc = "notify"
    /\ Len(cur.sent) = 3

-----------------------------------------------------------------------------
(* Properties of the client, checked under ClientSpec.                     *)

StepsOf(op) == { i \in 1..Len(steps) : steps[i].op = op }
IsMainOp(op) == \E i \in 1..Len(MainOps) : MainOps[i] = op
ErrorLines ==
    { i \in 1..Len(out) :
        \E op \in {"connect", "session", "initialize", "call_tool", "result",
                   "session_exit", "transport_exit"} :
            out[i] = "Error: " \o op \o " failed" }

\* C5: if an awaited operation of main() raises, main() starts none of the
\* later operations, prints the error once and ends normally; the exception
\* does not leave main().
C5_ErrorsCaughtAndPrinted ==
    /\ cpc # "crashed"
    /\ failedAt # "" =>
          /\ \E i \in StepsOf(failedAt) :
                /\ ~steps[i].ok
                /\ \A j \in 1..Len(steps) : j > i => ~IsMainOp(steps[j].op)
          /\ \A j \in 1..Len(steps) :
                IsMainOp(steps[j].op) => OpIndex(steps[j].op) <= OpIndex(failedAt)
          /\ cpc \in {"session_exit", "transport_exit", "done"}
          /\ cpc # "done" => ErrorLines = {}
          /\ cpc = "done" =>
                /\ Cardinality(ErrorLines) = 1
                /\ ErrorLines = {Len(out)}
                /\ out[Len(out)] = "Error: " \o cexc.msg

C5_Witness ==
    /\ failedAt = "call_tool"
    /\ cpc = "done"
    /\ out[Len(out)] = "Error: call_tool failed"
    /\ Len(steps) = 6

\* C6: the transport is opened before the session is constructed,
\* initialize() has completed before call_tool is issued, call_tool is issued
\* at most once and for mcp_create_text_to_image_task, and the task result is
\* awaited only after call_tool has returned.
C6_ClientStepOrder ==
    /\ \A i \in StepsOf("session") :
          \E j \in StepsOf("connect") : j < i /\ steps[j].ok
    /\ \A i \in StepsOf("call_tool") :
          /\ \E j \in StepsOf("initialize") : j < i /\ steps[j].ok
          /\ steps[i].tool = "mcp_create_text_to_image_task"
    /\ Cardinality(StepsOf("call_tool")) <= 1
    /\ \A i \in StepsOf("result") :
          \E j \in StepsOf("call_tool") : j < i /\ steps[j].ok

C6_Witness ==
    /\ cpc = "done"
    /\ \E i \in StepsOf("result") : steps[i].ok
    /\ Cardinality(StepsOf("call_tool")) = 1
    /\ cexc = NoExc

====
